---- MODULE Spec2Model ----
(***************************************************************************)
(* Model of the Consul service-registration reconciler (ServiceClient) and *)
(* its script-check runner (scriptCheck.run).                              *)
(*                                                                         *)
(* Strings are sequences of one-character strings, so that strings.Join    *)
(* and strings.HasPrefix are computed as the code computes them.           *)
(***************************************************************************)
EXTENDS Naturals, Integers, Sequences, FiniteSets, TLC

(***************************************************************************)
(* Bounds of the model                                                     *)
(***************************************************************************)
MaxOps == 2
MaxErrors == 1
BackoffErrors == 35
BackoffOps == 1

(***************************************************************************)
(* Program constants                                                       *)
(***************************************************************************)
nomadServicePrefix == <<"_", "n", "o", "m", "a", "d">>
defaultRetryInterval == 1
defaultMaxRetryInterval == 30
opChCap == 8

(***************************************************************************)
(* String helpers (package strings)                                        *)
(***************************************************************************)
HasPrefix(s, prefix) ==
    /\ Len(s) >= Len(prefix)
    /\ SubSeq(s, 1, Len(prefix)) = prefix

RECURSIVE Join(_, _)
Join(parts, sep) ==
    IF parts = <<>> THEN <<>>
    ELSE IF Len(parts) = 1 THEN parts[1]
    ELSE parts[1] \o sep \o Join(Tail(parts), sep)

Dash == <<"-">>

(* maps: a Go map is a function; these are insert and delete *)
EmptyMap == [k \in {} |-> k]
Put(m, k, v) == [x \in (DOMAIN m) \cup {k} |-> IF x = k THEN v ELSE m[x]]
Del(m, K) == [x \in (DOMAIN m) \ K |-> m[x]]
Range(s) == {s[i] : i \in DOMAIN s}

(***************************************************************************)
(* Identifier scheme                                                       *)
(***************************************************************************)
isNomadServiceNoCheck(id) == TRUE
isNomadService(id) == HasPrefix(id, nomadServicePrefix)

makeAgentServiceID(role, service) ==
    Join(<<nomadServicePrefix, role, service.Name>> \o service.Tags, Dash)

makeTaskServiceID(allocID, taskName, service) ==
    Join(<<nomadServicePrefix, <<"e", "x", "e", "c", "u", "t", "o", "r">>,
           allocID, taskName, service.Name>> \o service.Tags, Dash)

(* ServiceCheck.Hash: an opaque, stable hash of the service ID and the    *)
(* check's fields; modelled as the injective pairing of the two.          *)
createCheckID(serviceID, check) == [svc |-> serviceID, chk |-> check]

ServiceCheckScript == "script"
ServiceCheckTCP == "tcp"
ServiceCheckHTTP == "http"

createCheckRegFails(check) ==
    check.Type \notin {ServiceCheckHTTP, ServiceCheckTCP, ServiceCheckScript}

createCheckReg(serviceID, checkID, check) ==
    [ID |-> checkID, Name |-> check.Name, ServiceID |-> serviceID,
     Kind |-> IF check.Type = ServiceCheckScript THEN "TTL"
              ELSE IF check.Type = ServiceCheckTCP THEN "TCP" ELSE "HTTP"]

(***************************************************************************)
(* Inputs: the tasks, agent services and registry entries the callers and  *)
(* the remote registry are drawn from.                                     *)
(***************************************************************************)
StrA1 == <<"a", "1">>
StrWeb == <<"w", "e", "b">>
StrV1 == <<"v", "1">>
StrV2 == <<"v", "2">>
StrServer == <<"s", "e", "r", "v", "e", "r">>
StrNomad == <<"n", "o", "m", "a", "d">>
StrSerf == <<"s", "e", "r", "f">>

(* port labels of agent services and checks: literal host:port strings *)
PortOK == <<"h", ":", "8">>
PortNoColon == <<"h", "8">>
PortNotNumber == <<"h", ":", "x">>
NoPortLabel == <<>>

ChkScript == [Name |-> "probe", Type |-> ServiceCheckScript, PortLabel |-> NoPortLabel]
ChkTCP == [Name |-> "alive", Type |-> ServiceCheckTCP, PortLabel |-> NoPortLabel]
ChkHTTP == [Name |-> "page", Type |-> ServiceCheckHTTP, PortLabel |-> NoPortLabel]
ChkBadType == [Name |-> "odd", Type |-> "grpc", PortLabel |-> NoPortLabel]
ChkBadPort == [Name |-> "alive", Type |-> ServiceCheckTCP, PortLabel |-> PortNotNumber]

Svc(name, tags, chks) == [Name |-> name, Tags |-> tags, Checks |-> chks]
Task(svcs) == [Name |-> StrWeb, Services |-> svcs]

(* web/v1 with a script check; web/v2 (a tag edit) with a TCP check;       *)
(* web/v1 listing the same TCP check twice.                                *)
TaskV1 == Task(<<Svc(StrWeb, <<StrV1>>, <<ChkScript>>)>>)
TaskV2 == Task(<<Svc(StrWeb, <<StrV2>>, <<ChkTCP>>)>>)
TaskV1Dup == Task(<<Svc(StrWeb, <<StrV1>>, <<ChkTCP, ChkTCP>>)>>)
Tasks == {TaskV1, TaskV2, TaskV1Dup}

TaskBadType == Task(<<Svc(StrWeb, <<StrV1>>, <<ChkBadType>>)>>)

AgentSvc(name, tags, chks, portLabel) ==
    [Name |-> name, Tags |-> tags, Checks |-> chks, PortLabel |-> portLabel]

AgentServices == <<AgentSvc(StrNomad, <<StrSerf>>, <<ChkTCP>>, PortOK)>>

(* agent services RegisterAgent rejects: a script check, port labels that  *)
(* do not parse, a check of an unknown type                                *)
AgentScript == <<AgentSvc(StrNomad, <<StrSerf>>, <<ChkTCP, ChkScript>>, PortOK)>>
AgentNoColon == <<AgentSvc(StrNomad, <<StrSerf>>, <<ChkTCP>>, PortNoColon)>>
AgentNotNumber == <<AgentSvc(StrNomad, <<StrSerf>>, <<ChkTCP>>, PortNotNumber)>>
AgentBadCheckPort == <<AgentSvc(StrNomad, <<StrSerf>>, <<ChkBadPort>>, PortOK)>>
AgentBadType == <<AgentSvc(StrNomad, <<StrSerf>>, <<ChkBadType>>, PortOK)>>
AgentRejected == {AgentScript, AgentNoColon, AgentNotNumber, AgentBadCheckPort, AgentBadType}

(* registry entries of other parties, and stale entries bearing the prefix *)
ForeignSvcID == <<"s", "v", "c", "-", "f", "o", "o">>
ForeignChkID == createCheckID(ForeignSvcID, ChkTCP)
StaleSvcID == nomadServicePrefix \o <<"x">>
StaleChkID == createCheckID(StaleSvcID, ChkTCP)
RemoteSvc(id) == [ID |-> id, Name |-> id, Tags |-> <<>>]
RemoteChk(id, sid) == [ID |-> id, Name |-> "remote", ServiceID |-> sid, Kind |-> "TCP"]

(***************************************************************************)
(* operations: a batch submitted to the sync loop by commit()              *)
(***************************************************************************)
NoOps == [regServices |-> {}, regChecks |-> {}, scripts |-> {},
          deregServices |-> {}, deregChecks |-> {}]

IDsOf(regs) == {r.ID : r \in regs}

(* the script check of a check ID: scriptCheck.id is the check ID *)
newScriptCheck(checkID, check) == [id |-> checkID, check |-> check]

(***************************************************************************)
(* Translation of tasks and agent services into operations                 *)
(***************************************************************************)
NilExec == "nil"
Exec == "exec"

ScriptChecksOf(service) == {c \in Range(service.Checks) : c.Type = ServiceCheckScript}

(* serviceRegs returns an error and the batch is abandoned *)
serviceRegsFails(service, exec) ==
    \/ exec = NilExec /\ ScriptChecksOf(service) # {}
    \/ \E c \in Range(service.Checks) : createCheckRegFails(c)

(* serviceRegs: the service registration, one check registration per check *)
(* and one script check per script-type check                              *)
serviceRegs(ops, allocID, service, task) ==
    LET id == makeTaskServiceID(allocID, task.Name, service)
        serviceReg == [ID |-> id, Name |-> service.Name, Tags |-> service.Tags]
    IN  [ops EXCEPT
           !.regServices = @ \cup {serviceReg},
           !.scripts = @ \cup {newScriptCheck(createCheckID(id, c), c) :
                                  c \in ScriptChecksOf(service)},
           !.regChecks = @ \cup {createCheckReg(id, createCheckID(id, c), c) :
                                    c \in Range(service.Checks)}]

RECURSIVE serviceRegsAll(_, _, _, _)
serviceRegsAll(ops, allocID, svcs, task) ==
    IF svcs = <<>> THEN ops
    ELSE serviceRegsAll(serviceRegs(ops, allocID, Head(svcs), task),
                        allocID, Tail(svcs), task)

RegisterTaskFails(task, exec) ==
    \E s \in Range(task.Services) : serviceRegsFails(s, exec)

RegisterTaskOps(allocID, task) ==
    serviceRegsAll(NoOps, allocID, task.Services, task)

(* RemoveTask forgetting the checks of the services it removes *)
RemoveTaskOpsNoChecks(allocID, task) ==
    [NoOps EXCEPT
       !.deregServices = {makeTaskServiceID(allocID, task.Name, s) :
                             s \in Range(task.Services)}]

RemoveTaskOps(allocID, task) ==
    [NoOps EXCEPT
       !.deregServices = {makeTaskServiceID(allocID, task.Name, s) :
                             s \in Range(task.Services)},
       !.deregChecks = UNION {{createCheckID(makeTaskServiceID(allocID, task.Name, s), c) :
                                  c \in Range(s.Checks)} : s \in Range(task.Services)}]

(* the map from service ID to service that UpdateTask builds from a task;  *)
(* a later service with the same ID replaces an earlier one                *)
ServiceIDMap(allocID, task) ==
    LET idOf(i) == makeTaskServiceID(allocID, task.Name, task.Services[i])
        ids == {idOf(i) : i \in DOMAIN task.Services}
        last(id) == CHOOSE i \in DOMAIN task.Services :
                       /\ idOf(i) = id
                       /\ \A j \in DOMAIN task.Services : idOf(j) = id => j <= i
    IN  [id \in ids |-> task.Services[last(id)]]

(* the loop over newSvc.Checks of a service present in both tasks: a check *)
(* found in existingChecks is removed from it and skipped, any other check *)
(* is registered. Returns the checks registered and what is left of        *)
(* existingChecks.                                                         *)
RECURSIVE DiffChecks(_, _, _, _)
DiffChecks(sid, newChecks, existingChecks, reg) ==
    IF newChecks = <<>> THEN [reg |-> reg, left |-> existingChecks]
    ELSE LET check == Head(newChecks)
             checkID == createCheckID(sid, check)
         IN  IF checkID \in existingChecks
             THEN DiffChecks(sid, Tail(newChecks), existingChecks \ {checkID}, reg)
             ELSE DiffChecks(sid, Tail(newChecks), existingChecks, reg \cup {check})

UpdateTaskDiff(allocID, existing, newTask, sid) ==
    DiffChecks(sid, ServiceIDMap(allocID, newTask)[sid].Checks,
               {createCheckID(sid, c) :
                   c \in Range(ServiceIDMap(allocID, existing)[sid].Checks)}, {})

UpdateTaskFails(allocID, existing, newTask, exec) ==
    LET existingIDs == ServiceIDMap(allocID, existing)
        newIDs == ServiceIDMap(allocID, newTask)
    IN  \/ \E sid \in (DOMAIN existingIDs) \cap (DOMAIN newIDs) :
              \E c \in UpdateTaskDiff(allocID, existing, newTask, sid).reg :
                 \/ c.Type = ServiceCheckScript /\ exec = NilExec
                 \/ createCheckRegFails(c)
        \/ \E sid \in (DOMAIN newIDs) \ (DOMAIN existingIDs) :
              serviceRegsFails(newIDs[sid], exec)

(* UpdateTask forgetting the checks of the services it removes *)
UpdateTaskOpsKeepChecks(allocID, existing, newTask) ==
    LET existingIDs == ServiceIDMap(allocID, existing)
        newIDs == ServiceIDMap(allocID, newTask)
    IN  [RegisterTaskOps(allocID, newTask) EXCEPT
           !.deregServices = (DOMAIN existingIDs) \ (DOMAIN newIDs)]

UpdateTaskOps(allocID, existing, newTask) ==
    LET existingIDs == ServiceIDMap(allocID, existing)
        newIDs == ServiceIDMap(allocID, newTask)
        removed == (DOMAIN existingIDs) \ (DOMAIN newIDs)
        both == (DOMAIN existingIDs) \cap (DOMAIN newIDs)
        added == (DOMAIN newIDs) \ (DOMAIN existingIDs)
        diff(sid) == UpdateTaskDiff(allocID, existing, newTask, sid)
    IN  [regServices |-> {[ID |-> sid, Name |-> newIDs[sid].Name,
                           Tags |-> newIDs[sid].Tags] : sid \in added},
         regChecks |->
            UNION {{createCheckReg(sid, createCheckID(sid, c), c) : c \in diff(sid).reg} :
                      sid \in both}
            \cup UNION {{createCheckReg(sid, createCheckID(sid, c), c) :
                            c \in Range(newIDs[sid].Checks)} : sid \in added},
         scripts |->
            UNION {{newScriptCheck(createCheckID(sid, c), c) :
                       c \in {x \in diff(sid).reg : x.Type = ServiceCheckScript}} :
                      sid \in both}
            \cup UNION {{newScriptCheck(createCheckID(sid, c), c) :
                            c \in ScriptChecksOf(newIDs[sid])} : sid \in added},
         deregServices |-> removed,
         deregChecks |->
            UNION {{createCheckID(sid, c) : c \in Range(existingIDs[sid].Checks)} :
                      sid \in removed}
            \cup UNION {diff(sid).left : sid \in both}]

(* net.SplitHostPort: the label splits at its colon into host and port;   *)
(* a label without a colon, or with more than one, is an error             *)
Colons(label) == {i \in DOMAIN label : label[i] = ":"}
SplitHostPortFails(label) == Cardinality(Colons(label)) # 1
SplitHostPort(label) ==
    LET i == CHOOSE j \in Colons(label) : TRUE
    IN  [host |-> SubSeq(label, 1, i - 1), rawport |-> SubSeq(label, i + 1, Len(label))]

(* strconv.Atoi: a non-empty string of digits *)
Digits == {"0", "1", "2", "3", "4", "5", "6", "7", "8", "9"}
AtoiFails(str) == str = <<>> \/ \E i \in DOMAIN str : str[i] \notin Digits

PortLabelFails(label) ==
    \/ SplitHostPortFails(label)
    \/ AtoiFails(SplitHostPort(label).rawport)

(* RegisterAgent accepting script checks *)
RegisterAgentFailsAllowScripts(services) ==
    \E s \in Range(services) :
       \/ PortLabelFails(s.PortLabel)
       \/ \E c \in Range(s.Checks) :
             \/ c.PortLabel # NoPortLabel /\ PortLabelFails(c.PortLabel)
             \/ createCheckRegFails(c)

RegisterAgentFails(services) ==
    \E s \in Range(services) :
       \/ PortLabelFails(s.PortLabel)
       \/ \E c \in Range(s.Checks) :
             \/ c.Type = ServiceCheckScript
             \/ c.PortLabel # NoPortLabel /\ PortLabelFails(c.PortLabel)
             \/ createCheckRegFails(c)

RegisterAgentOps(role, services) ==
    [NoOps EXCEPT
       !.regServices = {[ID |-> makeAgentServiceID(role, s), Name |-> s.Name,
                         Tags |-> s.Tags] : s \in Range(services)},
       !.regChecks = UNION {{createCheckReg(makeAgentServiceID(role, s),
                                            createCheckID(makeAgentServiceID(role, s), c), c) :
                                c \in Range(s.Checks)} : s \in Range(services)}]

(* Shutdown forgetting the agent's checks *)
ShutdownOpsNoChecks(agentSvcs, agentChks) ==
    [NoOps EXCEPT !.deregServices = agentSvcs]

ShutdownOps(agentSvcs, agentChks) ==
    [NoOps EXCEPT !.deregServices = agentSvcs, !.deregChecks = agentChks]

(***************************************************************************)
(* merge: a batch into the desired-state store                             *)
(***************************************************************************)
Upsert(m, regs, key(_)) ==
    [k \in (DOMAIN m) \cup {key(r) : r \in regs} |->
        IF \E r \in regs : key(r) = k THEN CHOOSE r \in regs : key(r) = k ELSE m[k]]

RegID(r) == r.ID
ScriptID(sc) == sc.id

(* a merge that leaves alone a handle it has already cancelled *)
mergeCancelOnce(st, ops) ==
    LET running == {cid \in (DOMAIN st.runningScripts) \cap ops.deregChecks :
                       ~st.runningScripts[cid].cancelled}
    IN  [services |-> Del(Upsert(st.services, ops.regServices, RegID), ops.deregServices),
         checks |-> Del(Upsert(st.checks, ops.regChecks, RegID), ops.deregChecks),
         scripts |-> Del(Upsert(st.scripts, ops.scripts, ScriptID), running),
         runningScripts |->
            [cid \in DOMAIN st.runningScripts |->
                IF cid \in running
                THEN [st.runningScripts[cid] EXCEPT !.cancelled = TRUE]
                ELSE st.runningScripts[cid]]]

(* a merge that applies the deregistrations before the registrations *)
mergeDeregFirst(st, ops) ==
    LET running == (DOMAIN st.runningScripts) \cap ops.deregChecks
    IN  [services |-> Upsert(Del(st.services, ops.deregServices), ops.regServices, RegID),
         checks |-> Upsert(Del(st.checks, ops.deregChecks), ops.regChecks, RegID),
         scripts |-> Upsert(Del(st.scripts, running), ops.scripts, ScriptID),
         runningScripts |->
            [cid \in DOMAIN st.runningScripts |->
                IF cid \in running
                THEN [st.runningScripts[cid] EXCEPT !.cancelled = TRUE]
                ELSE st.runningScripts[cid]]]

(* the store is [services, checks, scripts, runningScripts]; a check that  *)
(* is deregistered has its running script cancelled and its script         *)
(* definition dropped; its handle stays in runningScripts                  *)
merge(st, ops) ==
    LET running == (DOMAIN st.runningScripts) \cap ops.deregChecks
    IN  [services |-> Del(Upsert(st.services, ops.regServices, RegID), ops.deregServices),
         checks |-> Del(Upsert(st.checks, ops.regChecks, RegID), ops.deregChecks),
         scripts |-> Del(Upsert(st.scripts, ops.scripts, ScriptID), running),
         runningScripts |->
            [cid \in DOMAIN st.runningScripts |->
                IF cid \in running
                THEN [st.runningScripts[cid] EXCEPT !.cancelled = TRUE]
                ELSE st.runningScripts[cid]]]

(***************************************************************************)
(* sync: one reconcile pass                                                *)
(*                                                                         *)
(* A pass is a sequence of remote calls that stops at the first error.     *)
(* `fail` names the call that errors: its phase, the entry it is for, and  *)
(* (the maps being ranged over in an unspecified order) the entries of     *)
(* that phase handled before it. Phases before the failing one are         *)
(* complete, phases after it are not started.                              *)
(***************************************************************************)
Phases == <<"Services", "Checks", "sdereg", "sreg", "cdereg", "creg", "none">>
Rank(p) == CHOOSE i \in DOMAIN Phases : Phases[i] = p

NoCalls == [ServiceDeregister |-> {}, ServiceRegister |-> {},
            CheckDeregister |-> {}, CheckRegister |-> {}]

NoFail == [phase |-> "none", done |-> {}, at |-> {}]

(* a pass that forgets the stale-check sweep *)
SyncWorkNoCheckSweep(st, cs, cc) ==
    [sdereg |-> {id \in DOMAIN cs : id \notin DOMAIN st.services /\ isNomadService(id)},
     sreg |-> {id \in DOMAIN st.services : id \notin DOMAIN cs},
     cdereg |-> {},
     creg |-> {id \in DOMAIN st.checks : id \notin DOMAIN cc}]

(* a pass that registers every desired service and check again *)
SyncWorkReregister(st, cs, cc) ==
    [sdereg |-> {id \in DOMAIN cs : id \notin DOMAIN st.services /\ isNomadService(id)},
     sreg |-> DOMAIN st.services,
     cdereg |-> {id \in DOMAIN cc :
                    id \notin DOMAIN st.checks /\ isNomadService(cc[id].ServiceID)},
     creg |-> DOMAIN st.checks]

(* what each phase of a pass has to do, from the snapshots cs and cc *)
SyncWork(st, cs, cc) ==
    [sdereg |-> {id \in DOMAIN cs : id \notin DOMAIN st.services /\ isNomadService(id)},
     sreg |-> {id \in DOMAIN st.services : id \notin DOMAIN cs},
     cdereg |-> {id \in DOMAIN cc :
                    id \notin DOMAIN st.checks /\ isNomadService(cc[id].ServiceID)},
     creg |-> {id \in DOMAIN st.checks : id \notin DOMAIN cc}]

(* the ways a pass can fail *)
SyncFailures(st, cs, cc) ==
    {[phase |-> "Services", done |-> {}, at |-> {}],
     [phase |-> "Checks", done |-> {}, at |-> {}]}
    \cup UNION {UNION {{[phase |-> p, done |-> d, at |-> {x}] :
                           d \in SUBSET (SyncWork(st, cs, cc)[p] \ {x})} :
                          x \in SyncWork(st, cs, cc)[p]} :
                   p \in {"sdereg", "sreg", "cdereg", "creg"}}

sync(st, cs, cc, fail) ==
    LET work == SyncWork(st, cs, cc)
        doneIn(p) == IF Rank(fail.phase) > Rank(p) THEN work[p]
                     ELSE IF fail.phase = p THEN fail.done ELSE {}
        called(p) == IF fail.phase = p THEN fail.done \cup fail.at ELSE doneIn(p)
        started == {id \in doneIn("creg") :
                       id \in DOMAIN st.scripts /\ id \notin DOMAIN st.runningScripts}
    IN  [err |-> fail.phase # "none",
         consulServices |->
            [id \in ((DOMAIN cs) \ doneIn("sdereg")) \cup doneIn("sreg") |->
                IF id \in doneIn("sreg") THEN st.services[id] ELSE cs[id]],
         consulChecks |->
            [id \in ((DOMAIN cc) \ doneIn("cdereg")) \cup doneIn("creg") |->
                IF id \in doneIn("creg") THEN st.checks[id] ELSE cc[id]],
         started |-> started,
         runningScripts |->
            [id \in (DOMAIN st.runningScripts) \cup started |->
                IF id \in started THEN [cancelled |-> FALSE]
                ELSE st.runningScripts[id]],
         calls |->
            [ServiceDeregister |-> called("sdereg"),
             ServiceRegister |-> called("sreg"),
             CheckDeregister |->
                {[id |-> id, owner |-> cc[id].ServiceID] : id \in called("cdereg")},
             CheckRegister |->
                {[id |-> id, owner |-> st.checks[id].ServiceID] : id \in called("creg")}]]

(***************************************************************************)
(* State                                                                   *)
(***************************************************************************)
VARIABLES
    consulServices,   \* the remote registry: service ID -> service
    consulChecks,     \* the remote registry: check ID -> check
    services,         \* ServiceClient.services
    checks,           \* ServiceClient.checks
    scripts,          \* ServiceClient.scripts
    runningScripts,   \* ServiceClient.runningScripts: check ID -> handle
    agentServices,    \* ServiceClient.agentServices
    agentChecks,      \* ServiceClient.agentChecks
    opCh,             \* the operation queue
    shutdownCh,       \* TRUE once shutdownCh is closed
    runPc,            \* where Run is: select, sync, check, exited
    failures,         \* Run's failures counter
    retryTimer,       \* 0: not armed; else the backoff it was armed with
    sdPc,             \* where Shutdown is
    sdOps,            \* the batch Shutdown built
    raPc,             \* where RegisterAgent is
    raOps,            \* the batch RegisterAgent committed
    script,           \* check ID -> the state of its script worker
    opSrc,            \* history: for each queued batch, the call that built it
    lastMerged,       \* history: the call that built the last merged batch
    lastSync,         \* history: outcome and remote calls of the last pass
    hist,             \* history: flags and sets the properties refer to
    opsLeft,          \* environment: producer calls still to come
    errLeft           \* environment: remote errors still to come

vars == <<consulServices, consulChecks, services, checks, scripts, runningScripts,
          agentServices, agentChecks, opCh, shutdownCh, runPc, failures, retryTimer,
          sdPc, sdOps, raPc, raOps, script, opSrc, lastMerged, lastSync, hist,
          opsLeft, errLeft>>

remoteVars == <<consulServices, consulChecks>>
storeVars == <<services, checks, scripts, runningScripts>>
agentVars == <<agentServices, agentChecks>>
queueVars == <<opCh, opSrc>>
loopVars == <<runPc, failures, retryTimer>>
sdVars == <<sdPc, sdOps>>
raVars == <<raPc, raOps>>

Store == [services |-> services, checks |-> checks, scripts |-> scripts,
          runningScripts |-> runningScripts]

exitCh == runPc = "exited"

(* history tags name a task by a short name *)
NoTask == Task(<<>>)
TaskNames == {"none", "v1", "v2", "v1dup"}
TaskOf(n) ==
    IF n = "v1" THEN TaskV1
    ELSE IF n = "v2" THEN TaskV2
    ELSE IF n = "v1dup" THEN TaskV1Dup
    ELSE NoTask
NameOf(task) == CHOOSE n \in TaskNames : TaskOf(n) = task
Tag(op, old, task) == [op |-> op, old |-> NameOf(old), task |-> NameOf(task)]
NoTag == [op |-> "none", old |-> "none", task |-> "none", pre |-> FALSE]

TaskServiceIDs(task) ==
    {makeTaskServiceID(StrA1, task.Name, s) : s \in Range(task.Services)}
TaskCheckIDs(task) ==
    UNION {{createCheckID(makeTaskServiceID(StrA1, task.Name, s), c) :
               c \in Range(s.Checks)} : s \in Range(task.Services)}

(***************************************************************************)
(* Initial states: a fresh ServiceClient whose Run loop has started, and a *)
(* remote registry that may hold entries of other parties, stale entries   *)
(* bearing the prefix, and entries left by an earlier run of this node.    *)
(***************************************************************************)
LeftoverSvcID == makeTaskServiceID(StrA1, StrWeb, TaskV1.Services[1])
LeftoverChkID == createCheckID(LeftoverSvcID, ChkScript)

RemoteEntries ==
    {[svc |-> ForeignSvcID, chk |-> ForeignChkID],
     [svc |-> StaleSvcID, chk |-> StaleChkID],
     [svc |-> LeftoverSvcID, chk |-> LeftoverChkID]}

InitRemote(entries) ==
    /\ consulServices = [id \in {e.svc : e \in entries} |-> RemoteSvc(id)]
    /\ consulChecks = [id \in {e.chk : e \in entries} |-> RemoteChk(id, id.svc)]

NewServiceClient ==
    /\ services = EmptyMap
    /\ checks = EmptyMap
    /\ scripts = EmptyMap
    /\ runningScripts = EmptyMap
    /\ agentServices = {}
    /\ agentChecks = {}
    /\ opCh = <<>>
    /\ shutdownCh = FALSE
    /\ runPc = "select"
    /\ failures = 0
    /\ retryTimer = 0
    /\ sdPc = "idle"
    /\ sdOps = NoOps
    /\ raPc = "idle"
    /\ raOps = NoOps
    /\ script = EmptyMap
    /\ opSrc = <<>>
    /\ lastMerged = NoTag
    /\ lastSync = [err |-> FALSE, calls |-> NoCalls, fresh |-> FALSE, phase |-> "none"]
    /\ hist = [lateRegisterAgent |-> FALSE, registered |-> {}, passed |-> FALSE,
               sdAgentServices |-> {}, sdAgentChecks |-> {}, consecutive |-> 0,
               failed |-> FALSE]

InitWith(remotes, nops, nerrs) ==
    /\ NewServiceClient
    /\ \E entries \in remotes : InitRemote(entries)
    /\ opsLeft = nops
    /\ errLeft = nerrs

(***************************************************************************)
(* commit: the select between the queue and the shutdown signal. With room *)
(* in the queue the batch can be taken; with shutdownCh closed the call    *)
(* can return false; with both, either happens.                            *)
(***************************************************************************)
commitMayRefuse == shutdownCh
commitMayAccept == Len(opCh) < opChCap

commit(ops, tag, accepted) ==
    IF accepted
    THEN /\ commitMayAccept
         /\ opCh' = Append(opCh, ops)
         /\ opSrc' = Append(opSrc, [op |-> tag.op, old |-> tag.old, task |-> tag.task,
                                    early |-> ~shutdownCh])
    ELSE /\ commitMayRefuse
         /\ UNCHANGED queueVars

(***************************************************************************)
(* Callers: RegisterTask, UpdateTask, RemoveTask, RegisterAgent            *)
(***************************************************************************)
RegisterTask(allocID, task, exec) ==
    /\ opsLeft > 0
    /\ opsLeft' = opsLeft - 1
    /\ IF RegisterTaskFails(task, exec)
       THEN UNCHANGED queueVars
       ELSE \E accepted \in BOOLEAN :
               commit(RegisterTaskOps(allocID, task),
                      Tag("RegisterTask", NoTask, task), accepted)
    /\ hist' = [hist EXCEPT !.failed = RegisterTaskFails(task, exec)]
    /\ UNCHANGED <<remoteVars, storeVars, agentVars, shutdownCh, loopVars, sdVars,
                   raVars, script, lastMerged, lastSync, errLeft>>

UpdateTask(allocID, existing, newTask, exec) ==
    /\ opsLeft > 0
    /\ opsLeft' = opsLeft - 1
    /\ IF UpdateTaskFails(allocID, existing, newTask, exec)
       THEN UNCHANGED queueVars
       ELSE \E accepted \in BOOLEAN :
               commit(UpdateTaskOps(allocID, existing, newTask),
                      Tag("UpdateTask", existing, newTask), accepted)
    /\ hist' = [hist EXCEPT !.failed = UpdateTaskFails(allocID, existing, newTask, exec)]
    /\ UNCHANGED <<remoteVars, storeVars, agentVars, shutdownCh, loopVars, sdVars,
                   raVars, script, lastMerged, lastSync, errLeft>>

RemoveTask(allocID, task) ==
    /\ opsLeft > 0
    /\ opsLeft' = opsLeft - 1
    /\ \E accepted \in BOOLEAN :
          commit(RemoveTaskOps(allocID, task), Tag("RemoveTask", NoTask, task), accepted)
    /\ UNCHANGED <<remoteVars, storeVars, agentVars, shutdownCh, loopVars, sdVars,
                   raVars, script, lastMerged, lastSync, hist, errLeft>>

(* RegisterAgent up to its commit; a committed batch is recorded next *)
RegisterAgent(role, svcs) ==
    /\ raPc = "idle"
    /\ opsLeft > 0
    /\ opsLeft' = opsLeft - 1
    /\ IF RegisterAgentFails(svcs)
       THEN /\ hist' = [hist EXCEPT !.failed = TRUE]
            /\ UNCHANGED <<queueVars, raVars>>
       ELSE \E accepted \in BOOLEAN :
               /\ commit(RegisterAgentOps(role, svcs),
                         Tag("RegisterAgent", NoTask, NoTask), accepted)
               /\ raPc' = IF accepted THEN "record" ELSE "idle"
               /\ raOps' = IF accepted THEN RegisterAgentOps(role, svcs) ELSE raOps
               /\ hist' = [hist EXCEPT
                             !.lateRegisterAgent =
                                @ \/ (accepted /\ sdPc \notin {"idle", "commit"}),
                             !.failed = FALSE]
    /\ UNCHANGED <<remoteVars, storeVars, agentVars, shutdownCh, loopVars, sdVars,
                   script, lastMerged, lastSync, errLeft>>

(* RegisterAgent after its commit: record the IDs under agentLock *)
RegisterAgentRecord ==
    /\ raPc = "record"
    /\ agentServices' = agentServices \cup IDsOf(raOps.regServices)
    /\ agentChecks' = agentChecks \cup IDsOf(raOps.regChecks)
    /\ raPc' = "idle"
    /\ UNCHANGED <<remoteVars, storeVars, queueVars, shutdownCh, loopVars, sdVars,
                   raOps, script, lastMerged, lastSync, hist, opsLeft, errLeft>>

(***************************************************************************)
(* Run: the sync loop                                                      *)
(***************************************************************************)
RECURSIVE MergeAll(_, _)
MergeAll(st, q) ==
    IF q = <<>> THEN st ELSE MergeAll(merge(st, Head(q)), Tail(q))

(* history: the tag of a merged batch, with whether the IDs of the task it *)
(* replaces were in the store when it was merged                           *)
Stamp(st, tag) ==
    [op |-> tag.op, old |-> tag.old, task |-> tag.task,
     pre |-> /\ TaskServiceIDs(TaskOf(tag.old)) \subseteq DOMAIN st.services
             /\ TaskCheckIDs(TaskOf(tag.old)) \subseteq DOMAIN st.checks]

RECURSIVE LastTag(_, _, _, _)
LastTag(st, q, tags, last) ==
    IF q = <<>> THEN last
    ELSE LastTag(merge(st, Head(q)), Tail(q), Tail(tags), Stamp(st, Head(tags)))

(* the loop merges the batches q; a cancel reaches the workers' contexts *)
Merged(q, tags) ==
    LET st == MergeAll(Store, q)
    IN  /\ services' = st.services
        /\ checks' = st.checks
        /\ scripts' = st.scripts
        /\ runningScripts' = st.runningScripts
        /\ lastMerged' = LastTag(Store, q, tags, lastMerged)
        /\ lastSync' = [lastSync EXCEPT !.fresh = FALSE]
        /\ script' = [cid \in DOMAIN script |->
                         IF /\ st.runningScripts[cid].cancelled
                            /\ ~runningScripts[cid].cancelled
                            /\ script[cid].pc = "exec"
                         THEN [script[cid] EXCEPT !.cancelDuring = TRUE]
                         ELSE script[cid]]

(* the first select: the retry timer fires *)
RunTimer ==
    /\ runPc = "select"
    /\ retryTimer > 0
    /\ retryTimer' = 0
    /\ runPc' = "sync"
    /\ UNCHANGED <<remoteVars, storeVars, agentVars, queueVars, shutdownCh, failures,
                   sdVars, raVars, script, lastMerged, lastSync, hist, opsLeft, errLeft>>

(* the first select: shutdownCh is closed *)
RunShutdown ==
    /\ runPc = "select"
    /\ shutdownCh
    /\ runPc' = "sync"
    /\ UNCHANGED <<remoteVars, storeVars, agentVars, queueVars, shutdownCh, failures,
                   retryTimer, sdVars, raVars, script, lastMerged, lastSync, hist,
                   opsLeft, errLeft>>

(* the first select: a batch arrives and is merged *)
RunMerge ==
    /\ runPc = "select"
    /\ opCh # <<>>
    /\ Merged(<<Head(opCh)>>, <<Head(opSrc)>>)
    /\ opCh' = Tail(opCh)
    /\ opSrc' = Tail(opSrc)
    /\ runPc' = "sync"
    /\ UNCHANGED <<remoteVars, agentVars, shutdownCh, failures, retryTimer, sdVars,
                   raVars, hist, opsLeft, errLeft>>

Min(a, b) == IF a < b THEN a ELSE b

BackoffUncapped(n) == defaultRetryInterval * n
(* a failed pass that leaves the retry timer disabled *)
BackoffDisarmed(n) == 0
Backoff(n) == Min(defaultRetryInterval * n, defaultMaxRetryInterval)

NewWorker ==
    [pc |-> "select", timedOut |-> FALSE, beat |-> "none", cancelDuring |-> FALSE,
     beatCancelled |-> FALSE, asleep |-> FALSE, probesAfter |-> 0, beatsAfter |-> 0,
     code |-> 0, execFailed |-> FALSE]

(* c.sync() and what Run does with its result *)
RunSync(fail) ==
    LET r == sync(Store, consulServices, consulChecks, fail)
    IN  /\ runPc = "sync"
        /\ fail = NoFail \/ errLeft > 0
        /\ errLeft' = IF r.err THEN errLeft - 1 ELSE errLeft
        /\ consulServices' = r.consulServices
        /\ consulChecks' = r.consulChecks
        /\ runningScripts' = r.runningScripts
        /\ script' = [cid \in (DOMAIN script) \cup r.started |->
                         IF cid \in r.started THEN NewWorker ELSE script[cid]]
        /\ failures' = IF r.err THEN failures + 1 ELSE 0
        /\ retryTimer' = IF r.err THEN Backoff(failures + 1) ELSE retryTimer
        /\ lastSync' = [err |-> r.err, calls |-> r.calls, fresh |-> TRUE,
                         phase |-> fail.phase]
        /\ hist' = [hist EXCEPT !.registered = @ \cup (r.calls.ServiceRegister \ fail.at),
                                !.passed = TRUE,
                                !.consecutive = IF r.err THEN @ + 1 ELSE 0]
        /\ runPc' = "check"
        /\ UNCHANGED <<services, checks, scripts, agentVars, queueVars, shutdownCh,
                       sdVars, raVars, lastMerged, opsLeft>>

RunSyncOK == RunSync(NoFail)

RunSyncFail ==
    \E fail \in SyncFailures(Store, consulServices, consulChecks) : RunSync(fail)

(* a loop that, shut down with its retry timer armed, goes back to wait *)
RunCheckWaitsForTimer ==
    /\ runPc = "check"
    /\ IF shutdownCh
       THEN IF Len(opCh) > 0
            THEN /\ Merged(opCh, opSrc)
                 /\ opCh' = <<>>
                 /\ opSrc' = <<>>
                 /\ runPc' = "select"
            ELSE /\ runPc' = IF retryTimer > 0 THEN "select" ELSE "return"
                 /\ UNCHANGED <<storeVars, queueVars, script, lastMerged, lastSync>>
       ELSE /\ runPc' = "select"
            /\ UNCHANGED <<storeVars, queueVars, script, lastMerged, lastSync>>
    /\ UNCHANGED <<remoteVars, agentVars, shutdownCh, failures, retryTimer, sdVars,
                   raVars, hist, opsLeft, errLeft>>

(* the second select: on shutdown drain the queue and loop once more, or   *)
(* return when it is empty                                                 *)
RunCheck ==
    /\ runPc = "check"
    /\ IF shutdownCh
       THEN IF Len(opCh) > 0
            THEN /\ Merged(opCh, opSrc)
                 /\ opCh' = <<>>
                 /\ opSrc' = <<>>
                 /\ runPc' = "select"
            ELSE /\ runPc' = "return"
                 /\ UNCHANGED <<storeVars, queueVars, script, lastMerged, lastSync>>
       ELSE /\ runPc' = "select"
            /\ UNCHANGED <<storeVars, queueVars, script, lastMerged, lastSync>>
    /\ UNCHANGED <<remoteVars, agentVars, shutdownCh, failures, retryTimer, sdVars,
                   raVars, hist, opsLeft, errLeft>>

(* Run returns: the deferred close(c.exitCh) *)
RunReturn ==
    /\ runPc = "return"
    /\ runPc' = "exited"
    /\ UNCHANGED <<remoteVars, storeVars, agentVars, queueVars, shutdownCh, failures,
                   retryTimer, sdVars, raVars, script, lastMerged, lastSync, hist,
                   opsLeft, errLeft>>

(***************************************************************************)
(* Shutdown                                                                *)
(***************************************************************************)
(* the shutdownCh test, then the deregistration batch built under agentLock *)
ShutdownBegin ==
    /\ sdPc = "idle"
    /\ IF shutdownCh
       THEN sdPc' = "retNil" /\ UNCHANGED <<sdOps, hist>>
       ELSE /\ sdPc' = "commit"
            /\ sdOps' = ShutdownOps(agentServices, agentChecks)
            /\ hist' = [hist EXCEPT !.sdAgentServices = agentServices,
                                    !.sdAgentChecks = agentChecks]
    /\ UNCHANGED <<remoteVars, storeVars, agentVars, queueVars, shutdownCh, loopVars,
                   raVars, script, lastMerged, lastSync, opsLeft, errLeft>>

ShutdownCommit ==
    /\ sdPc = "commit"
    /\ \E accepted \in BOOLEAN :
          commit(sdOps, Tag("Shutdown", NoTask, NoTask), accepted)
    /\ sdPc' = "close"
    /\ UNCHANGED <<remoteVars, storeVars, agentVars, shutdownCh, loopVars, sdOps,
                   raVars, script, lastMerged, lastSync, hist, opsLeft, errLeft>>

(* close(c.shutdownCh); history: which workers it finds sleeping *)
ShutdownClose ==
    /\ sdPc = "close"
    /\ shutdownCh' = TRUE
    /\ sdPc' = "waitExit"
    /\ script' = [cid \in DOMAIN script |->
                     [script[cid] EXCEPT
                        !.asleep = script[cid].pc = "select"
                                   /\ ~runningScripts[cid].cancelled]]
    /\ UNCHANGED <<remoteVars, storeVars, agentVars, queueVars, loopVars, sdOps,
                   raVars, lastMerged, lastSync, hist, opsLeft, errLeft>>

(* a Shutdown that goes on to the script checks without waiting for Run *)
ShutdownExitedNoWait ==
    /\ sdPc = "waitExit"
    /\ sdPc' = "waitScripts"
    /\ UNCHANGED <<remoteVars, storeVars, agentVars, queueVars, shutdownCh, loopVars,
                   sdOps, raVars, script, lastMerged, lastSync, hist, opsLeft, errLeft>>

(* the wait for Run: exitCh is closed *)
ShutdownExited ==
    /\ sdPc = "waitExit"
    /\ exitCh
    /\ sdPc' = "waitScripts"
    /\ UNCHANGED <<remoteVars, storeVars, agentVars, queueVars, shutdownCh, loopVars,
                   sdOps, raVars, script, lastMerged, lastSync, hist, opsLeft, errLeft>>

(* either wait: the deadline passes *)
ShutdownTimeout ==
    /\ sdPc \in {"waitExit", "waitScripts"}
    /\ sdPc' = "retErr"
    /\ UNCHANGED <<remoteVars, storeVars, agentVars, queueVars, shutdownCh, loopVars,
                   sdOps, raVars, script, lastMerged, lastSync, hist, opsLeft, errLeft>>

(* a Shutdown that does not wait for the handles already cancelled *)
ShutdownScriptsDoneSkipCancelled ==
    /\ sdPc = "waitScripts"
    /\ \A cid \in DOMAIN runningScripts :
          runningScripts[cid].cancelled \/ script[cid].pc = "done"
    /\ sdPc' = "retNil"
    /\ UNCHANGED <<remoteVars, storeVars, agentVars, queueVars, shutdownCh, loopVars,
                   sdOps, raVars, script, lastMerged, lastSync, hist, opsLeft, errLeft>>

(* the wait for the script checks: every handle of runningScripts is done *)
ShutdownScriptsDone ==
    /\ sdPc = "waitScripts"
    /\ \A cid \in DOMAIN runningScripts : script[cid].pc = "done"
    /\ sdPc' = "retNil"
    /\ UNCHANGED <<remoteVars, storeVars, agentVars, queueVars, shutdownCh, loopVars,
                   sdOps, raVars, script, lastMerged, lastSync, hist, opsLeft, errLeft>>

(***************************************************************************)
(* scriptCheck.run: the worker of one script check                         *)
(***************************************************************************)
HealthPassing == "passing"
HealthWarning == "warning"
HealthCritical == "critical"

ExitCodes == {0, 1, 2}

(* the status heartbeated for an exit code and an executor error *)
HeartbeatState(code, execFailed) ==
    IF execFailed THEN HealthCritical
    ELSE IF code = 0 THEN HealthPassing
    ELSE IF code = 1 THEN HealthWarning
    ELSE HealthCritical

(* execctx.Err() when Exec returns: the deadline if it passed before a     *)
(* cancel, the cancel otherwise                                            *)
execctxErr(cid) ==
    IF script[cid].timedOut THEN "DeadlineExceeded"
    ELSE IF runningScripts[cid].cancelled THEN "Canceled"
    ELSE "nil"

scriptFrame == <<remoteVars, storeVars, agentVars, queueVars, shutdownCh, loopVars,
                 sdVars, raVars, lastMerged, lastSync, hist, opsLeft, errLeft>>

(* the select at the top of the loop takes ctx.Done() *)
ScriptCancelled(cid) ==
    /\ script[cid].pc = "select"
    /\ runningScripts[cid].cancelled
    /\ script' = [script EXCEPT ![cid].pc = "done"]
    /\ UNCHANGED scriptFrame

MaxAfter == 3

(* the select takes the timer or shutdownCh: the probe starts *)
ScriptWake(cid) ==
    /\ script[cid].pc = "select"
    /\ script[cid].probesAfter < MaxAfter
    /\ script' = [script EXCEPT
                    ![cid].pc = "exec",
                    ![cid].timedOut = FALSE,
                    ![cid].probesAfter = IF shutdownCh THEN @ + 1 ELSE @]
    /\ UNCHANGED scriptFrame

(* the per-execution timeout passes while the probe runs *)
ScriptTimeout(cid) ==
    /\ script[cid].pc = "exec"
    /\ ~script[cid].timedOut
    /\ ~runningScripts[cid].cancelled
    /\ script' = [script EXCEPT ![cid].timedOut = TRUE]
    /\ UNCHANGED scriptFrame

(* Exec returns: exit on a cancelled execctx, else heartbeat *)
ScriptExec(cid, code, execFailed) ==
    /\ script[cid].pc = "exec"
    /\ IF execctxErr(cid) = "Canceled"
       THEN script' = [script EXCEPT ![cid].pc = "done"]
       ELSE script' = [script EXCEPT
                         ![cid].pc = "ttl",
                         ![cid].beat = HeartbeatState(code, execFailed),
                         ![cid].code = code,
                         ![cid].execFailed = execFailed,
                         ![cid].beatCancelled = @ \/ script[cid].cancelDuring,
                         ![cid].beatsAfter = IF shutdownCh THEN @ + 1 ELSE @]
    /\ UNCHANGED scriptFrame

(* a worker that does not look at shutdownCh after its heartbeat *)
ScriptTTLNoShutdownExit(cid) ==
    /\ script[cid].pc = "ttl"
    /\ script' = [script EXCEPT
                    ![cid].pc = IF runningScripts[cid].cancelled THEN "done" ELSE "select",
                    ![cid].beat = "none",
                    ![cid].code = 0,
                    ![cid].execFailed = FALSE]
    /\ UNCHANGED scriptFrame

(* UpdateTTL returns: exit if cancelled, exit if shutting down, else sleep *)
ScriptTTL(cid) ==
    /\ script[cid].pc = "ttl"
    /\ script' = [script EXCEPT
                    ![cid].pc = IF runningScripts[cid].cancelled \/ shutdownCh
                                THEN "done" ELSE "select",
                    ![cid].beat = "none",
                    ![cid].code = 0,
                    ![cid].execFailed = FALSE]
    /\ UNCHANGED scriptFrame

(***************************************************************************)
(* The system: callers, the sync loop, Shutdown and the script workers.    *)
(***************************************************************************)
Callers(tasks) ==
    \/ \E t \in tasks : RegisterTask(StrA1, t, Exec)
    \/ \E t1 \in tasks, t2 \in tasks : UpdateTask(StrA1, t1, t2, Exec)
    \/ \E t \in tasks : RemoveTask(StrA1, t)
    \/ RegisterAgent(StrServer, AgentServices)
    \/ RegisterAgentRecord

Loop ==
    \/ RunTimer
    \/ RunMerge
    \/ RunSyncOK
    \/ RunSyncFail
    \/ RunCheck

ShutdownSteps ==
    \/ ShutdownBegin
    \/ ShutdownCommit
    \/ ShutdownClose
    \/ ShutdownExited
    \/ ShutdownTimeout
    \/ ShutdownScriptsDone

Workers(codes, errs) ==
    \/ \E cid \in DOMAIN script : ScriptCancelled(cid)
    \/ \E cid \in DOMAIN script : ScriptWake(cid)
    \/ \E cid \in DOMAIN script : ScriptTimeout(cid)
    \/ \E cid \in DOMAIN script, code \in codes, f \in errs : ScriptExec(cid, code, f)
    \/ \E cid \in DOMAIN script : ScriptTTL(cid)

Init == InitWith({{}, RemoteEntries}, MaxOps, MaxErrors)

Next ==
    \/ Callers({TaskV1})
    \/ Loop
    \/ RunShutdown
    \/ RunReturn
    \/ ShutdownSteps
    \/ Workers({0}, {FALSE})

Spec == Init /\ [][Next]_vars

(***************************************************************************)
(* The reconciler while it is not shut down: callers and the sync loop     *)
(* over every task and every initial registry.                             *)
(***************************************************************************)
SyncOps == 2
SyncErrors == 1

InitSync == InitWith(SUBSET RemoteEntries, SyncOps, SyncErrors)

NextSync ==
    \/ Callers(Tasks)
    \/ Loop

SpecSync == InitSync /\ [][NextSync]_vars

(***************************************************************************)
(* The retry schedule: one task registered against a registry that keeps   *)
(* failing.                                                                *)
(***************************************************************************)
InitBackoff == InitWith({{}}, BackoffOps, BackoffErrors)

NextBackoff ==
    \/ RegisterTask(StrA1, TaskV2, Exec)
    \/ Loop

SpecBackoff == InitBackoff /\ [][NextBackoff]_vars

(***************************************************************************)
(* The script runner: a task with a script check is registered, removed    *)
(* and the client shut down, against a registry that does not fail, with   *)
(* every outcome of the probe.                                             *)
(***************************************************************************)
ScriptOps == 2

InitScript == InitWith({{}}, ScriptOps, 0)

NextScript ==
    \/ RegisterTask(StrA1, TaskV1, Exec)
    \/ RemoveTask(StrA1, TaskV1)
    \/ RunMerge
    \/ RunSyncOK
    \/ RunCheck
    \/ RunShutdown
    \/ RunReturn
    \/ ShutdownSteps
    \/ Workers(ExitCodes, BOOLEAN)

SpecScript == InitScript /\ [][NextScript]_vars

(***************************************************************************)
(* merge and sync on their own: batches handed straight to commit, among   *)
(* them one that registers and deregisters the same IDs, against a         *)
(* registry that does not fail.                                            *)
(***************************************************************************)
MergeOps == 3

(* a batch that registers a task's services and checks and deregisters the *)
(* same IDs                                                                *)
RenameOps(allocID, task) ==
    [RegisterTaskOps(allocID, task) EXCEPT
       !.deregServices = RemoveTaskOps(allocID, task).deregServices,
       !.deregChecks = RemoveTaskOps(allocID, task).deregChecks]

Batches ==
    {[ops |-> RegisterTaskOps(StrA1, TaskV1), tag |-> Tag("RegisterTask", NoTask, TaskV1)],
     [ops |-> RemoveTaskOps(StrA1, TaskV1), tag |-> Tag("RemoveTask", NoTask, TaskV1)],
     [ops |-> UpdateTaskOps(StrA1, TaskV1, TaskV2), tag |-> Tag("UpdateTask", TaskV1, TaskV2)],
     [ops |-> RenameOps(StrA1, TaskV1), tag |-> Tag("Rename", TaskV1, TaskV1)]}

(* c.commit(ops) of a batch, accepted onto the queue *)
Submit(b) ==
    /\ opsLeft > 0
    /\ opsLeft' = opsLeft - 1
    /\ commit(b.ops, b.tag, TRUE)
    /\ UNCHANGED <<remoteVars, storeVars, agentVars, shutdownCh, loopVars, sdVars,
                   raVars, script, lastMerged, lastSync, hist, errLeft>>

InitMerge == InitWith(SUBSET RemoteEntries, MergeOps, 0)

NextMerge ==
    \/ \E b \in Batches : Submit(b)
    \/ RunMerge
    \/ RunSyncOK
    \/ RunCheck

SpecMerge == InitMerge /\ [][NextMerge]_vars

(***************************************************************************)
(* Callers handing in what the translation rejects: agent services with a  *)
(* script check, a port label that does not parse or a check of an unknown *)
(* type, and tasks with a script check and no executor.                    *)
(***************************************************************************)
ErrorOps == 3

InitErrors == InitWith({{}}, ErrorOps, 0)

NextErrors ==
    \/ \E svcs \in AgentRejected \cup {AgentServices} : RegisterAgent(StrServer, svcs)
    \/ RegisterAgentRecord
    \/ \E t \in {TaskV1, TaskV2, TaskBadType}, exec \in {NilExec, Exec} :
          RegisterTask(StrA1, t, exec)
    \/ \E t1 \in {TaskV1, TaskV2}, t2 \in {TaskV1, TaskV2}, exec \in {NilExec, Exec} :
          UpdateTask(StrA1, t1, t2, exec)
    \/ RunMerge
    \/ RunSyncOK
    \/ RunCheck

SpecErrors == InitErrors /\ [][NextErrors]_vars

(***************************************************************************)
(* Shutting down against a registry that may fail every call: a task       *)
(* without script checks, the loop and Shutdown.                           *)
(***************************************************************************)
DownOps == 1
DownErrors == 3

InitDown == InitWith({{}}, DownOps, DownErrors)

NextDown ==
    \/ RegisterTask(StrA1, TaskV2, Exec)
    \/ Loop
    \/ RunShutdown
    \/ RunReturn
    \/ ShutdownSteps

(* the loop is scheduled and its remote calls return; nothing is assumed   *)
(* of the retry timer or of the callers                                    *)
DownFairness ==
    /\ WF_vars(RunShutdown)
    /\ WF_vars(RunMerge)
    /\ WF_vars(RunSyncOK \/ RunSyncFail)
    /\ WF_vars(RunCheck)
    /\ WF_vars(RunReturn)

SpecDown == InitDown /\ [][NextDown]_vars /\ DownFairness

(* the loop is scheduled and its remote calls return *)
LoopFairness ==
    /\ WF_vars(RunTimer)
    /\ WF_vars(RunMerge)
    /\ WF_vars(RunSyncOK \/ RunSyncFail)
    /\ WF_vars(RunCheck)

SpecLive == SpecSync /\ LoopFairness

(***************************************************************************)
(* Properties                                                              *)
(***************************************************************************)
(* the registry entries of other parties *)
ForeignEntries ==
    [svcs |-> [id \in {x \in DOMAIN consulServices : ~isNomadService(x)} |->
                  consulServices[id]],
     chks |-> [id \in {x \in DOMAIN consulChecks :
                          ~isNomadService(consulChecks[x].ServiceID)} |->
                  consulChecks[id]]]

(* the last pass issued calls only for entries bearing the prefix *)
OwnCallsOnly ==
    /\ \A id \in lastSync.calls.ServiceDeregister \cup lastSync.calls.ServiceRegister :
          HasPrefix(id, nomadServicePrefix)
    /\ \A c \in lastSync.calls.CheckDeregister \cup lastSync.calls.CheckRegister :
          HasPrefix(c.owner, nomadServicePrefix)

(* C1: ownership safety. No step changes the remote services whose ID      *)
(* lacks the prefix or the remote checks whose owning service ID lacks it, *)
(* and no pass issues a register or deregister call for such an entry.     *)
C1_OwnershipSafety == [][ForeignEntries' = ForeignEntries /\ OwnCallsOnly']_vars

(* a pass swept a stale prefixed service and installed a missing one next  *)
(* to a service and a check of another party                               *)
C1_Witness ==
    /\ ForeignSvcID \in DOMAIN consulServices
    /\ ForeignChkID \in DOMAIN consulChecks
    /\ StaleSvcID \in lastSync.calls.ServiceDeregister
    /\ lastSync.calls.ServiceRegister # {}
    /\ lastSync.calls.CheckRegister # {}

(* the prefixed entries of the remote registry are the desired state *)
Converged ==
    /\ {id \in DOMAIN consulServices : HasPrefix(id, nomadServicePrefix)} = DOMAIN services
    /\ {id \in DOMAIN consulChecks :
           HasPrefix(consulChecks[id].ServiceID, nomadServicePrefix)} = DOMAIN checks

(* C2: convergence. The callers submit finitely many batches and the       *)
(* registry fails finitely many calls; once a pass has run, the loop       *)
(* reaches, after finitely many passes, a state from which the prefixed    *)
(* remote service IDs and check IDs equal the keys of services and checks  *)
(* for ever.                                                               *)
C2_Convergence == <>[](hist.passed => Converged)

(* converged after a failed pass, with own entries installed, a stale one  *)
(* swept and a foreign one still there                                     *)
C2_Witness ==
    /\ hist.passed
    /\ Converged
    /\ errLeft = 0
    /\ opsLeft = 0
    /\ opCh = <<>>
    /\ runPc = "select"
    /\ DOMAIN services # {}
    /\ DOMAIN checks # {}
    /\ ForeignSvcID \in DOMAIN consulServices

(* a quiescent point: the last pass succeeded and nothing was merged since *)
Quiescent == lastSync.fresh /\ ~lastSync.err

(* C4: RegisterTask then RemoveTask. When the last batch merged is a       *)
(* RemoveTask of a task and a pass has succeeded since, the remote         *)
(* registry holds no service ID and no check ID derived from that task.    *)
C4_RemoveTaskLeavesNothing ==
    \A n \in TaskNames :
       (Quiescent /\ lastMerged.op = "RemoveTask" /\ lastMerged.task = n)
       => /\ TaskServiceIDs(TaskOf(n)) \cap DOMAIN consulServices = {}
          /\ TaskCheckIDs(TaskOf(n)) \cap DOMAIN consulChecks = {}

(* the task's service had been installed by an earlier pass *)
C4_Witness ==
    /\ Quiescent
    /\ lastMerged.op = "RemoveTask"
    /\ lastMerged.task = "v2"
    /\ TaskServiceIDs(TaskV2) \subseteq hist.registered
    /\ TaskServiceIDs(TaskV2) # {}

(* C5: script-worker bijection. At every quiescent point with an empty     *)
(* queue the keys of runningScripts are the check IDs that are in scripts  *)
(* and present as checks in the remote registry.                           *)
C5_ScriptWorkerBijection ==
    (Quiescent /\ opCh = <<>>)
    => DOMAIN runningScripts = (DOMAIN scripts) \cap (DOMAIN consulChecks)

(***************************************************************************)
(* UpdateTask: what the claim says the batch holds, stated from the two    *)
(* tasks alone                                                             *)
(***************************************************************************)
ChecksOfService(task, sid) ==
    UNION {{createCheckID(sid, c) : c \in Range(s.Checks)} :
              s \in {x \in Range(task.Services) :
                        makeTaskServiceID(StrA1, task.Name, x) = sid}}

(* the check IDs a service of the task lists more than once *)
RepeatedChecks(task, sid) ==
    UNION {{createCheckID(sid, s.Checks[i]) :
               i \in {j \in DOMAIN s.Checks :
                         \E k \in DOMAIN s.Checks : k # j /\ s.Checks[k] = s.Checks[j]}} :
              s \in {x \in Range(task.Services) :
                        makeTaskServiceID(StrA1, task.Name, x) = sid}}

DiffRemoved(old, new) == TaskServiceIDs(old) \ TaskServiceIDs(new)
DiffAdded(old, new) == TaskServiceIDs(new) \ TaskServiceIDs(old)
DiffBoth(old, new) == TaskServiceIDs(old) \cap TaskServiceIDs(new)

DiffDeregChecks(old, new) ==
    UNION {ChecksOfService(old, sid) : sid \in DiffRemoved(old, new)}
    \cup UNION {ChecksOfService(old, sid) \ ChecksOfService(new, sid) :
                   sid \in DiffBoth(old, new)}

DiffRegChecks(old, new) ==
    UNION {ChecksOfService(new, sid) : sid \in DiffAdded(old, new)}
    \cup UNION {ChecksOfService(new, sid) \ ChecksOfService(old, sid) :
                   sid \in DiffBoth(old, new)}

DiffRepeated(old, new) ==
    UNION {RepeatedChecks(new, sid) \cap ChecksOfService(old, sid) :
              sid \in DiffBoth(old, new)}

(* the queued batches that UpdateTask built *)
UpdateBatches == {i \in DOMAIN opCh : opSrc[i].op = "UpdateTask"}

(* after a reconcile, of the IDs of the two tasks only the new task's are  *)
(* present remotely (the old task's IDs having been in the store)          *)
UpdateReconciled ==
    (Quiescent /\ lastMerged.op = "UpdateTask" /\ lastMerged.pre)
    => LET old == TaskOf(lastMerged.old)
           new == TaskOf(lastMerged.task)
       IN  /\ (TaskServiceIDs(old) \cup TaskServiceIDs(new)) \cap DOMAIN consulServices
                 = TaskServiceIDs(new)
           /\ (TaskCheckIDs(old) \cup TaskCheckIDs(new)) \cap DOMAIN consulChecks
                 = TaskCheckIDs(new)

AgentGone ==
    /\ hist.sdAgentServices \cap DOMAIN consulServices = {}
    /\ hist.sdAgentChecks \cap DOMAIN consulChecks = {}

C9_NoCommitAfterShutdown == [][shutdownCh => Len(opCh') <= Len(opCh)]_vars

(* C6: shutdown with final heartbeat. A worker that is sleeping when       *)
(* shutdownCh is closed, and is not cancelled, starts at most one more     *)
(* probe and issues at most one more UpdateTTL; when its done signal is    *)
(* closed it has performed exactly one of each and the UpdateTTL call has  *)
(* returned.                                                               *)
C6_FinalHeartbeat ==
    \A cid \in DOMAIN script :
       (script[cid].asleep /\ ~runningScripts[cid].cancelled)
       => /\ script[cid].probesAfter <= 1
          /\ script[cid].beatsAfter <= 1
          /\ script[cid].pc = "done"
                => /\ script[cid].probesAfter = 1
                   /\ script[cid].beatsAfter = 1
                   /\ script[cid].beat = "none"

(* a worker found sleeping by Shutdown has probed, heartbeated and exited, *)
(* and Shutdown has seen its done signal                                   *)
C6_Witness ==
    \E cid \in DOMAIN script :
       /\ script[cid].asleep
       /\ ~runningScripts[cid].cancelled
       /\ script[cid].pc = "done"
       /\ script[cid].probesAfter = 1
       /\ script[cid].beatsAfter = 1
       /\ sdPc = "retNil"

(* C7: no UpdateTTL is issued for a probe during whose execution the       *)
(* worker's cancel was invoked.                                            *)
C7_NoHeartbeatWhenCancelled ==
    \A cid \in DOMAIN script : ~script[cid].beatCancelled

(* the schedule of the claim: 1, 2, ..., 30, 30, ... *)
Schedule(n) == IF n <= 30 THEN n ELSE 30

(* C8: linear capped backoff. After the n-th consecutive failed pass the   *)
(* retry timer is armed with 1s, 2s, ..., 30s, 30s, ... and the failure    *)
(* count is n; after a successful pass the count is zero.                  *)
C8_LinearCappedBackoff ==
    runPc = "check"
    => IF lastSync.err
       THEN /\ failures = hist.consecutive
            /\ retryTimer = Schedule(hist.consecutive)
       ELSE failures = 0

(* the 35th consecutive failure arms the timer with 30s *)
C8_Witness ==
    /\ runPc = "check"
    /\ lastSync.err
    /\ hist.consecutive = 35
    /\ retryTimer = 30

(* merge the batch, then one reconcile pass without errors: the store and  *)
(* the registry afterwards                                                 *)
MergeSync(st, cs, cc, ops) ==
    LET m == merge(st, ops)
        r == sync(m, cs, cc, NoFail)
    IN  [store |-> [m EXCEPT !.runningScripts = r.runningScripts],
         consulServices |-> r.consulServices,
         consulChecks |-> r.consulChecks]

(* C11: batch idempotence. From every reachable store and registry, for    *)
(* every batch: merging it twice gives the store that merging it once      *)
(* gives, hence the same registry after a pass; and merging and            *)
(* reconciling it a second time changes neither the store nor the registry *)
(* left by merging and reconciling it once.                                *)
C11_BatchIdempotence ==
    \A b \in Batches :
       LET once == merge(Store, b.ops)
           twice == merge(once, b.ops)
           applied == MergeSync(Store, consulServices, consulChecks, b.ops)
       IN  /\ twice = once
           /\ sync(twice, consulServices, consulChecks, NoFail)
                 = sync(once, consulServices, consulChecks, NoFail)
           /\ MergeSync(applied.store, applied.consulServices,
                        applied.consulChecks, b.ops) = applied

(* after a successful pass, the batch merged last, one that cancels a      *)
(* script, is at the head of the queue to be merged again                  *)
C11_Witness ==
    /\ runPc = "select"
    /\ opCh # <<>>
    /\ Head(opSrc).op = lastMerged.op
    /\ Head(opSrc).old = lastMerged.old
    /\ Head(opSrc).task = lastMerged.task
    /\ Head(opCh).deregChecks \cap DOMAIN runningScripts # {}
    /\ lastSync.fresh
    /\ ~lastSync.err

(* a call that returns an error leaves the queue, the store and the agent  *)
(* sets as they were                                                       *)
Abandoned ==
    /\ hist'.failed
    /\ UNCHANGED <<queueVars, storeVars, agentVars>>

C13_HeartbeatStatus ==
    \A cid \in DOMAIN script :
       LET w == script[cid]
           clean == ~w.execFailed /\ ~w.timedOut
       IN  w.pc = "ttl"
           => /\ w.beat = HealthPassing <=> (w.code = 0 /\ clean)
              /\ w.beat = HealthWarning <=> (w.code = 1 /\ clean)
              /\ w.beat = HealthCritical <=> ~(w.code \in {0, 1} /\ clean)

(* C14: every key of scripts is a key of checks.                           *)
C14_ScriptsInChecks == DOMAIN scripts \subseteq DOMAIN checks

(* C15: every key of runningScripts is a key of scripts, and a handle      *)
(* whose cancel merge has invoked is no longer in runningScripts.          *)
C15_RunningScriptsInScripts ==
    /\ DOMAIN runningScripts \subseteq DOMAIN scripts
    /\ \A cid \in DOMAIN runningScripts : ~runningScripts[cid].cancelled

(* C16 as stated: after the merge of a batch that registers and            *)
(* deregisters the same service and check IDs, the IDs are in the store.   *)
C16_AddTakesEffect ==
    lastMerged.op = "Rename"
    => /\ TaskServiceIDs(TaskV1) \subseteq DOMAIN services
       /\ TaskCheckIDs(TaskV1) \subseteq DOMAIN checks

(* C16, amended: merge applies a batch's registrations (services, checks,  *)
(* scripts) and then its deregistrations (services, checks), so after the  *)
(* merge of a batch that registers and deregisters the same IDs the IDs    *)
(* are absent from the store, and the script of a running check is gone.   *)
C16_RemovalTakesEffect ==
    lastMerged.op = "Rename"
    => /\ TaskServiceIDs(TaskV1) \cap DOMAIN services = {}
       /\ TaskCheckIDs(TaskV1) \cap DOMAIN checks = {}
       /\ \A cid \in TaskCheckIDs(TaskV1) \cap DOMAIN runningScripts :
             /\ runningScripts[cid].cancelled
             /\ cid \notin DOMAIN scripts

(* such a batch was merged into a store that held the IDs and a running    *)
(* script                                                                  *)
C16_Witness ==
    /\ lastMerged.op = "Rename"
    /\ lastMerged.pre
    /\ TaskCheckIDs(TaskV1) \cap DOMAIN runningScripts # {}
    /\ TaskServiceIDs(TaskV1) \cap DOMAIN services = {}

(* C17: shutdown drain. The loop never closes exitCh while the queue is    *)
(* non-empty.                                                              *)
C17_NoExitWithQueuedBatch ==
    [][(runPc = "return" /\ runPc' = "exited") => opCh = <<>>]_vars

(* What holds of the drain: the loop decides to return only on finding the *)
(* queue empty after shutdownCh is closed; once it has, no batch committed *)
(* before the close is left on the queue, the last merge was followed by a *)
(* reconcile pass, and Shutdown's agent deregistrations are in force in    *)
(* the store unless a RegisterAgent batch was committed after them.        *)
EarlyBatchesDrained ==
    runPc \in {"return", "exited"}
    => /\ shutdownCh
       /\ \A i \in DOMAIN opSrc : ~opSrc[i].early
       /\ lastMerged.op # "none" => lastSync.fresh
       /\ ~hist.lateRegisterAgent
             => /\ hist.sdAgentServices \cap DOMAIN services = {}
                /\ hist.sdAgentChecks \cap DOMAIN checks = {}

(* the loop has exited after merging Shutdown's batch, which deregistered  *)
(* a registered agent, and reconciling it                                  *)
EarlyBatchesDrainedWitness ==
    /\ runPc = "exited"
    /\ lastMerged.op = "Shutdown"
    /\ hist.sdAgentServices # {}
    /\ hist.sdAgentServices \subseteq hist.registered
    /\ lastSync.fresh

(* the remote calls the last pass issued in a phase *)
CallsIn(p) ==
    IF p = "sdereg" THEN lastSync.calls.ServiceDeregister
    ELSE IF p = "sreg" THEN lastSync.calls.ServiceRegister
    ELSE IF p = "cdereg" THEN lastSync.calls.CheckDeregister
    ELSE IF p = "creg" THEN lastSync.calls.CheckRegister
    ELSE {}

(* the last pass failed and the loop has armed the timer *)
FailedPass == runPc = "check" /\ lastSync.fresh /\ lastSync.err

(* C18: retry of an already-merged state. After a failed pass the retry    *)
(* timer is armed and, whether or not a batch arrives, another pass        *)
(* follows; a failed pass issued no call in the phases after the one whose *)
(* call failed.                                                            *)
C18_RetryWithoutNewBatch ==
    /\ [](FailedPass => retryTimer > 0)
    /\ [](FailedPass =>
             \A p \in {"sdereg", "sreg", "cdereg", "creg"} :
                Rank(p) > Rank(lastSync.phase) => CallsIn(p) = {})
    /\ \A n \in 1..SyncErrors :
          (FailedPass /\ hist.consecutive = n) ~> (hist.consecutive # n)

(* a pass failed registering a service while a check was still to be       *)
(* registered, and nothing is queued or left to submit                     *)
C18_Witness ==
    /\ FailedPass
    /\ lastSync.phase = "sreg"
    /\ SyncWork(Store, consulServices, consulChecks).creg # {}
    /\ CallsIn("creg") = {}
    /\ retryTimer > 0
    /\ opCh = <<>>
    /\ opsLeft = 0

(* C19: a reconcile pass issues no ServiceRegister for a service ID and no *)
(* CheckRegister for a check ID that the registry held when the pass       *)
(* began, and every entry that is in the registry before and after the     *)
(* pass is the same entry.                                                 *)
C19_NoReregistration ==
    [][(runPc = "sync" /\ runPc' = "check")
          => /\ lastSync'.calls.ServiceRegister \cap DOMAIN consulServices = {}
             /\ {c.id : c \in lastSync'.calls.CheckRegister} \cap DOMAIN consulChecks = {}
             /\ \A id \in (DOMAIN consulServices) \cap DOMAIN consulServices' :
                   consulServices'[id] = consulServices[id]
             /\ \A id \in (DOMAIN consulChecks) \cap DOMAIN consulChecks' :
                   consulChecks'[id] = consulChecks[id]]_vars

(* after a successful pass the registry holds, for a desired service and a *)
(* desired check, an entry that differs from the local registration        *)
C19_Witness ==
    /\ runPc = "check"
    /\ lastSync.fresh
    /\ ~lastSync.err
    /\ \E id \in (DOMAIN services) \cap DOMAIN consulServices :
          services[id] # consulServices[id]
    /\ \E id \in (DOMAIN checks) \cap DOMAIN consulChecks :
          checks[id] # consulChecks[id]

(* C20: no data race on runningScripts. Shutdown ranges over               *)
(* runningScripts, and returns nil after it, only when the loop has        *)
(* exited; the loop writes runningScripts only before it exits; a Shutdown *)
(* whose deadline passes while it waits for the loop returns the error     *)
(* from that wait.                                                         *)
C20_NoRaceOnRunningScripts ==
    [][/\ sdPc' = "waitScripts" => exitCh'
       /\ (sdPc = "waitScripts" /\ sdPc' = "retNil") => exitCh
       /\ runningScripts' # runningScripts => sdPc \notin {"waitScripts", "retNil"}
       /\ (sdPc = "waitExit" /\ ~exitCh) => sdPc' \in {"waitExit", "retErr"}]_vars

(* Shutdown has gone through the handles of a non-empty runningScripts     *)
(* after the loop exited                                                   *)
C20_Witness ==
    /\ sdPc = "retNil"
    /\ exitCh
    /\ DOMAIN runningScripts # {}
    /\ hist.sdAgentServices # {}

(* C21: when Shutdown, having closed shutdownCh, returns nil, the loop has *)
(* exited and every script worker a pass ever started, cancelled or not,   *)
(* has closed its done signal.                                             *)
C21_ShutdownNilMeansAllDone ==
    (sdPc = "retNil" /\ shutdownCh)
    => /\ exitCh
       /\ \A cid \in DOMAIN script : script[cid].pc = "done"

(* Shutdown returned nil after a worker that a deregistration had          *)
(* cancelled, and that heartbeated before, closed its done signal          *)
C21_Witness ==
    /\ sdPc = "retNil"
    /\ shutdownCh
    /\ \E cid \in DOMAIN script :
          /\ runningScripts[cid].cancelled
          /\ cid \notin DOMAIN scripts
          /\ script[cid].pc = "done"

(* C22: once Shutdown has built its deregistration batch, the batch holds  *)
(* every agent service and check ID of a RegisterAgent batch that commit   *)
(* accepted, and after the loop has exited none of them is in the store.   *)
C22_CommittedAgentDeregistered ==
    sdPc # "idle"
    => /\ IDsOf(raOps.regServices) \subseteq sdOps.deregServices
       /\ IDsOf(raOps.regChecks) \subseteq sdOps.deregChecks
       /\ exitCh => /\ IDsOf(raOps.regServices) \cap DOMAIN services = {}
                    /\ IDsOf(raOps.regChecks) \cap DOMAIN checks = {}

(* C23: once shutdownCh is closed the loop closes exitCh, whether its      *)
(* passes fail or not; and at its second select, shut down and with the    *)
(* queue empty, the loop returns, whatever the retry timer.                *)
C23_LoopTerminates ==
    /\ shutdownCh ~> exitCh
    /\ [][(runPc = "check" /\ shutdownCh /\ opCh = <<>> /\ runPc' # "check")
             => runPc' = "return"]_vars

(* the loop has exited with its retry timer armed, after merging batches   *)
(* of which no pass ever registered anything                               *)
C23_Witness ==
    /\ exitCh
    /\ lastMerged.op = "Shutdown"
    /\ DOMAIN services # {}
    /\ lastSync.err
    /\ retryTimer > 0
    /\ hist.consecutive >= 2
    /\ hist.registered = {}
    /\ DOMAIN consulServices = {}

====
